---------------------------- MODULE Spec2Model ----------------------------
(***************************************************************************)
(* Model of the mihifepe simulation (src/mihifepe/simulation):             *)
(* ground-truth polynomial synthesis, hierarchy generation, relevance and  *)
(* p-value annotation, evaluation of a discovery tree, and Model.predict.  *)
(*                                                                         *)
(* Conventions                                                             *)
(*  - a Python str is a sequence of one-character strings;                 *)
(*  - an anytree node is an integer identity (creation order); the tree    *)
(*    is a record of attribute functions over the identities;              *)
(*  - real numbers are exact: coefficients and probabilities are counted   *)
(*    in units of 1/UnitDen, precision/recall are pairs <<num, den>>,      *)
(*    p-values are triples <<n, d, j>> standing for (n/d) * 0.999^j.       *)
(***************************************************************************)
EXTENDS Integers, Sequences, FiniteSets, TLC

VARIABLES
    pc,                     \* position in the run
    args,                   \* the argparse namespace
    relevant_features,      \* get_relevant_features' set
    relevant_feature_map,   \* frozenset of features -> coefficient
    sym_polynomial_fn,      \* the ground-truth polynomial, as its terms
    interaction_only_features,  \* update_linear_terms' local of that name
    sym_model_fn,           \* the model expression: polynomial plus noise terms
    probs,                  \* per-feature binomial probability
    hierarchy,              \* the anytree hierarchy (attribute functions)
    feature_id_map,         \* contiguous id -> original feature index
    fdr_tree,               \* the discovery tree artifact (rejected flags)
    interactions_tree,      \* the interactions discovery tree artifact
    results,                \* evaluate's Results
    locals,                 \* local variables of the evaluate call, kept for inspection
    target,                 \* the target of the instance handed to Model.predict
    stages,                 \* the stages of pipeline begun so far, in order
    artifacts,              \* the files written to the output directory
    calls                   \* Model.predict calls made so far, with outcomes

vars == <<pc, args, relevant_features, relevant_feature_map, sym_polynomial_fn,
          interaction_only_features, sym_model_fn, probs, hierarchy, feature_id_map, fdr_tree, interactions_tree,
          results, locals, target, stages, artifacts, calls>>

-----------------------------------------------------------------------------
(* Bounds of the model *)

MaxFeatures == 8           \* num_features for the random hierarchy
MaxShuffled == 4           \* largest num_features whose every shuffle order is drawn
MaxClusterFeatures == 4    \* num_features for the clustered hierarchy
MaxPolyFeatures == 3       \* num_features for polynomial synthesis
MaxInteractions == 2       \* args.num_interactions
MaxRelFeatures == 3        \* num_features for relevance and p-value annotation
MaxRelInteractions == 1    \* args.num_interactions there
MaxEvalFeatures == 3       \* num_features for the evaluation of a discovery tree
MaxInterFeatures == 3      \* num_features for the evaluation of interactions
MaxInterPairs == 2         \* args.num_interactions there
MaxTested == 2             \* tested pairs in the interactions discovery tree

\* Coefficients and probabilities are counted in units of 1/UnitDen.
UnitDen == 20
\* args.rng.uniform() draws for coefficients: 0.05, 0.5, in (0, 1)
Coeffs == {1, 10}
\* args.rng.uniform(size=num_features) draws for probs: 0.05, 0.5
Probs == {1, 10}

-----------------------------------------------------------------------------
(* Python str and int conversions *)

DigitChars == <<"0", "1", "2", "3", "4", "5", "6", "7", "8", "9">>

RECURSIVE Str(_)
\* str(n), "%d" % n for n >= 0
Str(n) == IF n < 10 THEN <<DigitChars[n + 1]>>
          ELSE Str(n \div 10) \o <<DigitChars[(n % 10) + 1]>>

DigitValue(c) == (CHOOSE i \in 1..10 : DigitChars[i] = c) - 1

IsDigit(c) == \E i \in 1..10 : DigitChars[i] = c

RECURSIVE ParseInt(_, _)
ParseInt(s, acc) == IF s = <<>> THEN acc
                    ELSE ParseInt(Tail(s), 10 * acc + DigitValue(Head(s)))

\* int(s) for a decimal string
PyInt(s) == ParseInt(s, 0)

-----------------------------------------------------------------------------
(* anytree nodes *)

NoNode == -1       \* parent of a root (None)
NoIndex == -1      \* an attribute that was never set

IRRELEVANT == "irrelevant"
RELEVANT == "relevant"

\* A description is the text's fixed part with the two numbers formatted into it
\* ("%s feature:\nPolynomial coefficient: %f\nBinomial probability: %f").
Description(text, coeff, prob) == [text |-> text, coeff |-> coeff, prob |-> prob]
NoDescription == Description("unset", 0, 0)

\* A p-value is a quotient of products of positive integers, kept as the two
\* lists of factors.
NoPvalue == [num |-> <<0>>, den |-> <<>>]

EmptyTree ==
    [parent |-> <<>>, children |-> <<>>, name |-> <<>>, static_indices |-> <<>>,
     idx |-> <<>>, min_child_idx |-> <<>>, max_child_idx |-> <<>>,
     num_base_features |-> <<>>, description |-> <<>>, poly_coeff |-> <<>>,
     bin_prob |-> <<>>, pvalue |-> <<>>, root |-> NoNode]

\* Identities are 0, 1, ... in creation order; the attribute functions are
\* 1-indexed sequences, identity k being stored at position k + 1.
NodeIds(T) == 0 .. (Len(T.parent) - 1)

Parent(T, n) == T.parent[n + 1]
Children(T, n) == T.children[n + 1]
Name(T, n) == T.name[n + 1]
StaticIndices(T, n) == T.static_indices[n + 1]
IsLeaf(T, n) == Children(T, n) = <<>>

\* anytree.Node(name, static_indices=...): a new parentless node
NewNode(T, nm, static) ==
    [T EXCEPT !.parent = Append(@, NoNode),
              !.children = Append(@, <<>>),
              !.name = Append(@, nm),
              !.static_indices = Append(@, static),
              !.idx = Append(@, NoIndex),
              !.min_child_idx = Append(@, NoIndex),
              !.max_child_idx = Append(@, NoIndex),
              !.num_base_features = Append(@, NoIndex),
              !.description = Append(@, NoDescription),
              !.poly_coeff = Append(@, NoIndex),
              !.bin_prob = Append(@, NoIndex),
              !.pvalue = Append(@, NoPvalue)]

RemoveFrom(s, x) == SelectSeq(s, LAMBDA y : y # x)

\* node.parent = p: detach from the old parent, append to p's children
SetParent(T, c, p) ==
    LET old == Parent(T, c)
        T1 == IF old = NoNode THEN T
              ELSE [T EXCEPT !.children[old + 1] = RemoveFrom(@, c)]
    IN [T1 EXCEPT !.parent[c + 1] = p,
                  !.children[p + 1] = Append(@, c)]

RECURSIVE PostOrderFrom(_, _)
RECURSIVE PostOrderSeq(_, _)
\* anytree.PostOrderIter: children left to right, then the node
PostOrderFrom(T, n) == PostOrderSeq(T, Children(T, n)) \o <<n>>
PostOrderSeq(T, cs) == IF cs = <<>> THEN <<>>
                       ELSE PostOrderFrom(T, Head(cs)) \o PostOrderSeq(T, Tail(cs))

RECURSIVE PreOrderFrom(_, _)
RECURSIVE PreOrderSeq(_, _)
\* anytree.PreOrderIter: the node, then children left to right
PreOrderFrom(T, n) == <<n>> \o PreOrderSeq(T, Children(T, n))
PreOrderSeq(T, cs) == IF cs = <<>> THEN <<>>
                      ELSE PreOrderFrom(T, Head(cs)) \o PreOrderSeq(T, Tail(cs))

Range(s) == {s[i] : i \in 1..Len(s)}

-----------------------------------------------------------------------------
(* gen_random_hierarchy *)

\* nodes = [anytree.Node(str(idx), static_indices=str(idx)) for idx in range(N)]
RECURSIVE LeafNodes(_, _, _)
LeafNodes(T, idx, N) ==
    IF idx >= N THEN T
    ELSE LeafNodes(NewNode(T, Str(idx), Str(idx)), idx + 1, N)

\* PairUp with node_count never incremented
RECURSIVE PairUpStaleCount(_, _, _, _, _)
PairUpStaleCount(T, nodes, left, parents, node_count) ==
    IF left > Len(nodes)
    THEN [T |-> T, parents |-> parents, node_count |-> node_count]
    ELSE LET parent == Len(T.parent)
             T1 == NewNode(T, Str(node_count), <<>>)
             T2 == SetParent(T1, nodes[left], parent)
             T3 == IF left + 1 <= Len(nodes)
                   THEN SetParent(T2, nodes[left + 1], parent)
                   ELSE T2
         IN PairUpStaleCount(T3, nodes, left + 2, Append(parents, parent), node_count)

\* the for loop over left_idx in range(0, len(nodes), 2); left is 1-based here
RECURSIVE PairUp(_, _, _, _, _)
PairUp(T, nodes, left, parents, node_count) ==
    IF left > Len(nodes)
    THEN [T |-> T, parents |-> parents, node_count |-> node_count]
    ELSE LET parent == Len(T.parent)
             T1 == NewNode(T, Str(node_count), <<>>)
             T2 == SetParent(T1, nodes[left], parent)
             T3 == IF left + 1 <= Len(nodes)
                   THEN SetParent(T2, nodes[left + 1], parent)
                   ELSE T2
         IN PairUp(T3, nodes, left + 2, Append(parents, parent), node_count + 1)

\* while len(nodes) > 1
RECURSIVE PairRounds(_, _, _)
PairRounds(T, nodes, node_count) ==
    IF Len(nodes) > 1
    THEN LET r == PairUp(T, nodes, 1, <<>>, node_count)
         IN PairRounds(r.T, r.parents, r.node_count)
    ELSE [T EXCEPT !.root = nodes[1]]

\* `order` is the node list after args.rng.shuffle(nodes)
gen_random_hierarchy(N, order) ==
    PairRounds(LeafNodes(EmptyTree, 0, N), order, Len(order))

\* The shuffle orders drawn: every permutation up to MaxShuffled features,
\* rotations and reversed rotations of range(N) beyond that.
ShufflePermutations(N) ==
    {f \in [1..N -> 0..(N - 1)] : \A i, j \in 1..N : f[i] = f[j] => i = j}

ReversedRotations(N) == {[i \in 1..N |-> (N - i + r) % N] : r \in 0..(N - 1)}

Rotations(N) ==
    {[i \in 1..N |-> (i - 1 + r) % N] : r \in 0..(N - 1)} \cup ReversedRotations(N)

ShuffleOrders(N) == IF N <= MaxShuffled THEN ShufflePermutations(N) ELSE Rotations(N)

-----------------------------------------------------------------------------
(* gen_hierarchy_from_clusters *)

\* for idx, cluster in enumerate(clusters); a row is <<left_idx, right_idx>>
RECURSIVE ClusterRows(_, _, _, _)
ClusterRows(T, clusters, idx, N) ==
    IF idx >= Len(clusters) THEN T
    ELSE LET cluster_idx == idx + N
             cluster_node == Len(T.parent)
             T1 == NewNode(T, Str(cluster_idx), <<>>)
             T2 == SetParent(T1, clusters[idx + 1][1], cluster_node)
             T3 == SetParent(T2, clusters[idx + 1][2], cluster_node)
         IN ClusterRows(T3, clusters, idx + 1, N)

gen_hierarchy_from_clusters(N, clusters) ==
    LET T == ClusterRows(LeafNodes(EmptyTree, 0, N), clusters, 0, N)
    IN [T EXCEPT !.root = Len(T.parent) - 1]

\* scipy linkage matrices for N observations: row idx merges two clusters not
\* yet merged, among the observations and the clusters of earlier rows.
RECURSIVE Linkages(_, _, _)
Linkages(avail, next, rows) ==
    IF rows = 0 THEN {<<>>}
    ELSE UNION {
           {<<<<l, r>>>> \o rest :
               rest \in Linkages((avail \ {l, r}) \cup {next}, next + 1, rows - 1)}
           : <<l, r>> \in {p \in avail \X avail : p[1] # p[2]}}

cluster_data(N) == Linkages(0..(N - 1), N, N - 1)

\* the linkage matrices whose rows name the smaller cluster index first
SortedLinkages(N) ==
    {Z \in cluster_data(N) : \A i \in 1..Len(Z) : Z[i][1] < Z[i][2]}

-----------------------------------------------------------------------------
(* gen_hierarchy *)

CLUSTER_FROM_DATA == "cluster_from_data"
RANDOM == "random"
UNKNOWN_TYPE == "unknown"

SeqMin(s) == CHOOSE x \in Range(s) : \A y \in Range(s) : x <= y
SeqMax(s) == CHOOSE x \in Range(s) : \A y \in Range(s) : x >= y

\* len(children): the children counted, not their base features summed
SeqSumCount(s) == Len(s)

RECURSIVE SeqSum(_)
SeqSum(s) == IF s = <<>> THEN 0 ELSE Head(s) + SeqSum(Tail(s))

MapSeq(s, Op(_)) == [i \in 1..Len(s) |-> Op(s[i])]

\* "[%d-%d] (size: %d)" % (min_child_idx, max_child_idx, num_base_features)
RangeName(lo, hi, size) ==
    <<"[">> \o Str(lo) \o <<"-">> \o Str(hi) \o <<"]", " ", "(", "s", "i", "z", "e", ":", " ">>
    \o Str(size) \o <<")">>

\* an entry from the original feature index to the visual id
FeatureIdEntryReversed(T, node, idx) == PyInt(StaticIndices(T, node)) :> idx

\* feature_id_map[idx] = int(node.static_indices)
FeatureIdEntry(T, node, idx) == idx :> PyInt(StaticIndices(T, node))

\* for idx, node in enumerate(anytree.PostOrderIter(hierarchy_root)); H is the
\* pair [T, feature_id_map], order the post-order list, idx the 0-based count
RECURSIVE ContiguousNames(_, _, _)
ContiguousNames(H, order, idx) ==
    IF idx >= Len(order) THEN H
    ELSE LET node == order[idx + 1]
             T == H.T
             cs == Children(T, node)
             lo == SeqMin(MapSeq(cs, LAMBDA c : T.min_child_idx[c + 1]))
             hi == SeqMax(MapSeq(cs, LAMBDA c : T.idx[c + 1]))
             size == SeqSum(MapSeq(cs, LAMBDA c : T.num_base_features[c + 1]))
             H1 == IF IsLeaf(T, node)
                   THEN [T |-> [T EXCEPT !.idx[node + 1] = idx,
                                         !.min_child_idx[node + 1] = idx,
                                         !.max_child_idx[node + 1] = idx,
                                         !.num_base_features[node + 1] = 1,
                                         !.name[node + 1] = Str(idx)],
                         feature_id_map |->
                             FeatureIdEntry(T, node, idx) @@ H.feature_id_map]
                   ELSE [T |-> [T EXCEPT !.idx[node + 1] = idx,
                                         !.min_child_idx[node + 1] = lo,
                                         !.max_child_idx[node + 1] = hi,
                                         !.num_base_features[node + 1] = size,
                                         !.name[node + 1] = RangeName(lo, hi, size)],
                         feature_id_map |-> H.feature_id_map]
         IN ContiguousNames(H1, order, idx + 1)

\* gen_hierarchy once the hierarchy type has produced hierarchy_root
ImproveVisualization(T, contiguous_node_names) ==
    IF contiguous_node_names
    THEN ContiguousNames([T |-> T, feature_id_map |-> <<>>], PostOrderFrom(T, T.root), 0)
    ELSE [T |-> T, feature_id_map |-> <<>>]

-----------------------------------------------------------------------------
(* Specification of hierarchy generation *)

DefaultArgs ==
    [num_features |-> 1, hierarchy_type |-> RANDOM, contiguous_node_names |-> FALSE,
     num_interactions |-> 0, include_interaction_only_features |-> TRUE,
     noise_type |-> "no-noise", noise_multiplier |-> 0, analyze_interactions |-> FALSE]

Idle ==
    /\ relevant_features = {}
    /\ relevant_feature_map = <<>>
    /\ sym_polynomial_fn = <<>>
    /\ interaction_only_features = {}
    /\ sym_model_fn = <<>>
    /\ probs = <<>>
    /\ hierarchy = EmptyTree
    /\ feature_id_map = <<>>
    /\ fdr_tree = <<>>
    /\ interactions_tree = <<>>
    /\ results = <<>>
    /\ locals = <<>>
    /\ target = 0
    /\ stages = <<>>
    /\ artifacts = {}
    /\ calls = <<>>

HierInit ==
    /\ pc = "gen_hierarchy"
    /\ \E N \in 1..MaxFeatures, ty \in {CLUSTER_FROM_DATA, RANDOM, UNKNOWN_TYPE},
          cn \in BOOLEAN :
          /\ ty = CLUSTER_FROM_DATA => N <= MaxClusterFeatures
          /\ ty = UNKNOWN_TYPE => N = 1
          /\ args = [DefaultArgs EXCEPT !.num_features = N, !.hierarchy_type = ty,
                                        !.contiguous_node_names = cn]
    /\ Idle

GenHierarchyDone(T) ==
    LET H == ImproveVisualization(T, args.contiguous_node_names)
    IN /\ hierarchy' = H.T
       /\ feature_id_map' = H.feature_id_map
       /\ pc' = "hierarchy_done"
       /\ UNCHANGED <<args, relevant_features, relevant_feature_map, sym_polynomial_fn,
                      interaction_only_features, sym_model_fn, probs, fdr_tree,
                      interactions_tree, results, locals, target, stages, artifacts, calls>>

GenHierarchyClusters ==
    /\ pc = "gen_hierarchy"
    /\ args.hierarchy_type = CLUSTER_FROM_DATA
    /\ \E clusters \in cluster_data(args.num_features) :
          GenHierarchyDone(gen_hierarchy_from_clusters(args.num_features, clusters))

GenHierarchyRandom ==
    /\ pc = "gen_hierarchy"
    /\ args.hierarchy_type = RANDOM
    /\ \E order \in ShuffleOrders(args.num_features) :
          GenHierarchyDone(gen_random_hierarchy(args.num_features, order))

\* raise NotImplementedError("Need valid hierarchy type")
GenHierarchyUnknown ==
    /\ pc = "gen_hierarchy"
    /\ args.hierarchy_type \notin {CLUSTER_FROM_DATA, RANDOM}
    /\ pc' = "failed"
    /\ UNCHANGED <<args, relevant_features, relevant_feature_map, sym_polynomial_fn,
                   interaction_only_features, sym_model_fn, probs, hierarchy, feature_id_map, fdr_tree, interactions_tree,
                   results, locals, target, stages, artifacts, calls>>

HierNext == GenHierarchyClusters \/ GenHierarchyRandom \/ GenHierarchyUnknown

SpecHier == HierInit /\ [][HierNext]_vars

-----------------------------------------------------------------------------
(* Properties of the generated hierarchy *)

Leaves(T) == {n \in NodeIds(T) : IsLeaf(T, n)}
InternalNodes(T) == {n \in NodeIds(T) : ~IsLeaf(T, n)}

\* One root, and every node reached exactly once from it along children links
\* that agree with the parent links.
SingleRootedTree(T) ==
    /\ T.root \in NodeIds(T)
    /\ \A n \in NodeIds(T) : (Parent(T, n) = NoNode) <=> (n = T.root)
    /\ \A n \in NodeIds(T) \ {T.root} :
          Cardinality({i \in 1..Len(Children(T, Parent(T, n))) :
                          Children(T, Parent(T, n))[i] = n}) = 1
    /\ \A n \in NodeIds(T) : \A i \in 1..Len(Children(T, n)) :
          Parent(T, Children(T, n)[i]) = n
    /\ LET pre == PreOrderFrom(T, T.root)
       IN Len(pre) = Cardinality(NodeIds(T)) /\ Range(pre) = NodeIds(T)

LeafFeatureBijection(T, N) ==
    /\ \A n \in Leaves(T) :
          /\ StaticIndices(T, n) # <<>>
          /\ \A i \in 1..Len(StaticIndices(T, n)) : IsDigit(StaticIndices(T, n)[i])
          /\ PyInt(StaticIndices(T, n)) \in 0..(N - 1)
    /\ \A n \in InternalNodes(T) : StaticIndices(T, n) = <<>>
    /\ \A f \in 0..(N - 1) :
          Cardinality({n \in Leaves(T) : PyInt(StaticIndices(T, n)) = f}) = 1

DistinctNames(T) == \A m, n \in NodeIds(T) : Name(T, m) = Name(T, n) => m = n

\* C10: for every feature count N >= 1, gen_random_hierarchy (any shuffle order)
\* and gen_hierarchy_from_clusters (any valid linkage matrix of N-1 rows) end
\* with a single rooted tree whose leaves carry the feature indices 0..N-1, one
\* each and each once, with all node names distinct; the random hierarchy on 8
\* leaves has exactly 7 internal nodes.
C10_HierarchyWellFormed ==
    pc = "hierarchy_done" =>
        /\ SingleRootedTree(hierarchy)
        /\ LeafFeatureBijection(hierarchy, args.num_features)
        /\ DistinctNames(hierarchy)
        /\ Cardinality(Leaves(hierarchy)) = args.num_features
        /\ (args.hierarchy_type = RANDOM /\ args.num_features = 8
               => Cardinality(InternalNodes(hierarchy)) = 7)

C10_Witness ==
    /\ pc = "hierarchy_done"
    /\ args.hierarchy_type = RANDOM
    /\ args.num_features = 8
    /\ ~args.contiguous_node_names
    /\ Cardinality(InternalNodes(hierarchy)) = 7

-----------------------------------------------------------------------------
(* gen_polynomial: update_interaction_terms, update_linear_terms, noise terms *)

NO_NOISE == "no-noise"
EPSILON_IRRELEVANT == "epsilon-irrelevant"
ADDITIVE_GAUSSIAN == "additive-gaussian"
UNKNOWN_NOISE == "unknown"

\* dict.get(key): None when the key is absent; None is 0 here, falsy like 0.0
DictGet(map, key) == IF key \in DOMAIN map THEN map[key] ELSE 0

\* map[key] = value
DictSet(map, key, value) == (key :> value) @@ map

\* poly += coefficient * (product of the key's features)
AddTerm(poly, key, coefficient) ==
    IF coefficient = 0 THEN poly
    ELSE (key :> (DictGet(poly, key) + coefficient)) @@ poly

\* itertools.combinations(sorted(relevant_features), 2), as frozensets
PotentialPairs(R) == {{a, b} : a, b \in R} \ {{a} : a \in R}

\* min(args.num_interactions, n * (n - 1) / 2): the second argument is a float,
\* and min returns it only when it is strictly smaller
NumInteractions(K, n) ==
    LET cap == (n * (n - 1)) \div 2
    IN [value |-> IF cap < K THEN cap ELSE K, is_float |-> cap < K]

RECURSIVE SetToSeq(_)
\* sorted(S)
SetToSeq(S) == IF S = {} THEN <<>>
               ELSE LET m == CHOOSE x \in S : \A y \in S : x <= y
                    IN <<m>> \o SetToSeq(S \ {m})

RECURSIVE RecordPairs(_, _, _)
\* for interaction_pair in interaction_pairs; M is [map, poly], `coefficient`
\* gives the args.rng.uniform() draw of each pair
RecordPairs(M, pairs, coefficient) ==
    IF pairs = {} THEN M
    ELSE LET pair == CHOOSE q \in pairs : TRUE
         IN RecordPairs([map |-> DictSet(M.map, pair, coefficient[pair]),
                         poly |-> AddTerm(M.poly, pair, coefficient[pair])],
                        pairs \ {pair}, coefficient)

\* update_interaction_terms, given rng.choice's sample and the coefficient draws
update_interaction_terms(R, map, poly, interaction_pairs, coefficient) ==
    RecordPairs([map |-> map, poly |-> poly], interaction_pairs, coefficient)

\* interaction_features: the union of the map's keys
InteractionFeatures(map) == UNION (DOMAIN map)

RECURSIVE RecordLinear(_, _, _)
\* for linear_feature in linear_features
RecordLinear(M, linear_features, coefficients) ==
    IF linear_features = <<>> THEN M
    ELSE LET f == Head(linear_features)
         IN RecordLinear([map |-> DictSet(M.map, {f}, coefficients[f]),
                          poly |-> AddTerm(M.poly, {f}, coefficients[f])],
                         Tail(linear_features), coefficients)

LinearFeaturesAll(R, interaction_only) == SetToSeq(R)

\* sorted(relevant_features.difference(interaction_only_features))
LinearFeatures(R, interaction_only) == SetToSeq(R \ interaction_only)

\* update_linear_terms, given rng.choice's sample and the coefficient draws
update_linear_terms(R, map, poly, interaction_only, coefficients) ==
    RecordLinear([map |-> map, poly |-> poly],
                 LinearFeatures(R, interaction_only), coefficients)

\* The model expression: the polynomial's terms, the kind of noise added, and
\* the 0/1 vector irrelevant_features that multiplies the per-feature noise.
ModelExpression(a, R, poly) ==
    [poly |-> poly,
     noise |-> a.noise_type,
     irrelevant_features |->
         IF a.noise_type = EPSILON_IRRELEVANT
         THEN [x \in 0..(a.num_features - 1) |-> IF x \in R THEN 0 ELSE 1]
         ELSE <<>>]

-----------------------------------------------------------------------------
(* Exact arithmetic on p-values *)

\* Natural numbers of any size: base-1000 digits, least significant first.
RECURSIVE BigMulSmall(_, _, _)
BigMulSmall(big, m, carry) ==
    IF big = <<>>
    THEN IF carry = 0 THEN <<>>
         ELSE <<carry % 1000>> \o BigMulSmall(<<>>, m, carry \div 1000)
    ELSE LET v == Head(big) * m + carry
         IN <<v % 1000>> \o BigMulSmall(Tail(big), m, v \div 1000)

RECURSIVE BigProduct(_)
BigProduct(factors) ==
    IF factors = <<>> THEN <<1>>
    ELSE BigMulSmall(BigProduct(Tail(factors)), Head(factors), 0)

RECURSIVE BigLessFrom(_, _, _)
\* compares digit i downwards, the lengths being equal
BigLessFrom(a, b, i) ==
    IF i = 0 THEN FALSE
    ELSE IF a[i] # b[i] THEN a[i] < b[i]
    ELSE BigLessFrom(a, b, i - 1)

BigLess(a, b) ==
    IF Len(a) # Len(b) THEN Len(a) < Len(b) ELSE BigLessFrom(a, b, Len(a))

\* p < q
PLess(p, q) == BigLess(BigProduct(p.num \o q.den), BigProduct(q.num \o p.den))

PEqual(p, q) == ~PLess(p, q) /\ ~PLess(q, p)

\* max(p, q) in place of min(p, q)
PMax2(p, q) == IF PLess(p, q) THEN q ELSE p

\* min(p, q): the first argument unless the second is smaller
PMin2(p, q) == IF PLess(q, p) THEN q ELSE p

RECURSIVE PMinSeq(_)
\* min([...]) of a non-empty list
PMinSeq(ps) == IF Len(ps) = 1 THEN ps[1]
               ELSE LET rest == PMinSeq(Tail(ps))
                    IN IF PLess(rest, Head(ps)) THEN rest ELSE Head(ps)

POne == [num |-> <<>>, den |-> <<>>]                 \* 1.0
PLeafBaseline == [num |-> <<>>, den |-> <<1000>>]    \* 0.001
\* 0.999 * p
PScale999(p) == [num |-> p.num \o <<999>>, den |-> p.den \o <<1000>>]
\* 1e-10 / (poly_coeff * bin_prob) ** 3 with both counted in units of 1/UnitDen
PLowered(coeff, prob) ==
    [num |-> <<UnitDen, UnitDen, UnitDen, UnitDen, UnitDen, UnitDen>>,
     den |-> <<100000, 100000, coeff, coeff, coeff, prob, prob, prob>>]

-----------------------------------------------------------------------------
(* update_hierarchy_relevance *)

\* the loop body for one leaf without the interaction-only branch
LeafRelevanceLinearOnly(T, node, map, relevant, pr) ==
    LET idx == PyInt(StaticIndices(T, node))
        coeff == DictGet(map, {idx})
    IN IF coeff # 0
       THEN [T EXCEPT !.poly_coeff[node + 1] = coeff,
                      !.bin_prob[node + 1] = pr[idx],
                      !.description[node + 1] =
                          Description("relevant feature", coeff, pr[idx])]
       ELSE [T EXCEPT !.poly_coeff[node + 1] = 0,
                      !.bin_prob[node + 1] = pr[idx],
                      !.description[node + 1] = Description(IRRELEVANT, 0, 0)]

\* the loop body for one leaf
LeafRelevance(T, node, map, relevant, pr) ==
    LET idx == PyInt(StaticIndices(T, node))
        coeff == DictGet(map, {idx})
    IN IF coeff # 0
       THEN [T EXCEPT !.poly_coeff[node + 1] = coeff,
                      !.bin_prob[node + 1] = pr[idx],
                      !.description[node + 1] =
                          Description("relevant feature", coeff, pr[idx])]
       ELSE [T EXCEPT !.poly_coeff[node + 1] = 0,
                      !.bin_prob[node + 1] = pr[idx],
                      !.description[node + 1] =
                          IF idx \in relevant
                          THEN Description("relevant feature (Interaction-only)", 0, 0)
                          ELSE Description(IRRELEVANT, 0, 0)]

IsIrrelevant(d) == d = Description(IRRELEVANT, 0, 0)

\* the loop body for one internal node: for child in node.children
InternalRelevance(T, node) ==
    [T EXCEPT !.description[node + 1] =
        IF \E i \in 1..Len(Children(T, node)) :
               ~IsIrrelevant(T.description[Children(T, node)[i] + 1])
        THEN Description(RELEVANT, 0, 0)
        ELSE Description(IRRELEVANT, 0, 0)]

RECURSIVE RelevanceLoop(_, _, _, _, _)
\* for node in anytree.PostOrderIter(hierarchy_root)
RelevanceLoop(T, order, map, relevant, pr) ==
    IF order = <<>> THEN T
    ELSE LET node == Head(order)
             T1 == IF IsLeaf(T, node) THEN LeafRelevance(T, node, map, relevant, pr)
                   ELSE InternalRelevance(T, node)
         IN RelevanceLoop(T1, Tail(order), map, relevant, pr)

update_hierarchy_relevance(T, map, pr) ==
    RelevanceLoop(T, PostOrderFrom(T, T.root), map, UNION (DOMAIN map), pr)

-----------------------------------------------------------------------------
(* compare_with_ground_truth: the ground-truth p-values *)

\* the p-value every node gets when nothing lowers it
NodePvalueFlat(T, node) ==
    IF IsIrrelevant(T.description[node + 1]) THEN POne
    ELSE IF IsLeaf(T, node)
         THEN IF T.poly_coeff[node + 1] # 0
              THEN PMin2(PLeafBaseline,
                         PLowered(T.poly_coeff[node + 1], T.bin_prob[node + 1]))
              ELSE PLeafBaseline
         ELSE PMinSeq(MapSeq(Children(T, node), LAMBDA c : T.pvalue[c + 1]))

\* the loop body for one node
NodePvalue(T, node) ==
    IF IsIrrelevant(T.description[node + 1]) THEN POne
    ELSE IF IsLeaf(T, node)
         THEN IF T.poly_coeff[node + 1] # 0
              THEN PMin2(PLeafBaseline,
                         PLowered(T.poly_coeff[node + 1], T.bin_prob[node + 1]))
              ELSE PLeafBaseline
         ELSE PScale999(PMinSeq(MapSeq(Children(T, node), LAMBDA c : T.pvalue[c + 1])))

RECURSIVE PvalueLoop(_, _)
\* for node in anytree.PostOrderIter(hierarchy_root)
PvalueLoop(T, order) ==
    IF order = <<>> THEN T
    ELSE PvalueLoop([T EXCEPT !.pvalue[Head(order) + 1] = NodePvalue(T, Head(order))],
                    Tail(order))

ground_truth_pvalues(T) == PvalueLoop(T, PostOrderFrom(T, T.root))

-----------------------------------------------------------------------------
(* Specification of polynomial synthesis *)

NoiseTypes == {NO_NOISE, EPSILON_IRRELEVANT, ADDITIVE_GAUSSIAN, UNKNOWN_NOISE}

PolyInit ==
    /\ pc = "gen_polynomial"
    /\ \E N \in 1..MaxPolyFeatures, K \in 0..MaxInteractions, io \in BOOLEAN,
          nt \in NoiseTypes :
          args = [DefaultArgs EXCEPT !.num_features = N, !.num_interactions = K,
                                    !.include_interaction_only_features = io,
                                    !.noise_type = nt]
    \* get_relevant_features: max(1, round(N * fraction)) shuffled positions
    /\ relevant_features \in (SUBSET (0..(args.num_features - 1))) \ {{}}
    /\ relevant_feature_map = <<>>
    /\ sym_polynomial_fn = <<>>
    /\ interaction_only_features = {}
    /\ sym_model_fn = <<>>
    /\ probs = <<>>
    /\ hierarchy = EmptyTree
    /\ feature_id_map = <<>>
    /\ fdr_tree = <<>>
    /\ interactions_tree = <<>>
    /\ results = <<>>
    /\ locals = <<>>
    /\ target = 0
    /\ stages = <<>>
    /\ artifacts = {}
    /\ calls = <<>>

PolyUnchanged ==
    UNCHANGED <<args, relevant_features, probs, hierarchy, feature_id_map, fdr_tree,
                interactions_tree, results, locals, target, stages, artifacts, calls>>

\* if not num_interactions: return sym_polynomial_fn
UpdateInteractionTermsNone ==
    /\ pc = "gen_polynomial"
    /\ NumInteractions(args.num_interactions, Cardinality(relevant_features)).value = 0
    /\ pc' = "interaction_terms_done"
    /\ UNCHANGED <<relevant_feature_map, sym_polynomial_fn, interaction_only_features,
                   sym_model_fn>>
    /\ PolyUnchanged

UpdateInteractionTerms ==
    /\ pc = "gen_polynomial"
    /\ LET n == NumInteractions(args.num_interactions, Cardinality(relevant_features))
       IN /\ n.value # 0
          /\ \E interaction_pairs \in SUBSET PotentialPairs(relevant_features) :
                /\ Cardinality(interaction_pairs) = n.value
                /\ \E coefficient \in [interaction_pairs -> Coeffs] :
                      LET M == update_interaction_terms(relevant_features,
                                   relevant_feature_map, sym_polynomial_fn,
                                   interaction_pairs, coefficient)
                      IN /\ relevant_feature_map' = M.map
                         /\ sym_polynomial_fn' = M.poly
    /\ pc' = "interaction_terms_done"
    /\ UNCHANGED <<interaction_only_features, sym_model_fn>>
    /\ PolyUnchanged

\* rng.choice(size=num_interactions) with a float size (the requested count
\* exceeds the number of pairs): numpy rejects a float shape, older releases
\* accept it with a warning (then UpdateInteractionTerms applies)
UpdateInteractionTermsFloatSize ==
    /\ pc = "gen_polynomial"
    /\ LET n == NumInteractions(args.num_interactions, Cardinality(relevant_features))
       IN n.value # 0 /\ n.is_float
    /\ pc' = "failed"
    /\ UNCHANGED <<relevant_feature_map, sym_polynomial_fn, interaction_only_features,
                   sym_model_fn>>
    /\ PolyUnchanged

UpdateLinearTerms ==
    /\ pc = "interaction_terms_done"
    /\ LET interaction_features == InteractionFeatures(relevant_feature_map)
       IN \E interaction_only \in SUBSET interaction_features :
            /\ Cardinality(interaction_only) =
                   IF interaction_features # {} /\ args.include_interaction_only_features
                   THEN Cardinality(interaction_features) \div 2
                   ELSE 0
            /\ \E coefficients \in [0..(args.num_features - 1) -> Coeffs] :
                  LET M == update_linear_terms(relevant_features, relevant_feature_map,
                                               sym_polynomial_fn, interaction_only,
                                               coefficients)
                  IN /\ relevant_feature_map' = M.map
                     /\ sym_polynomial_fn' = M.poly
            /\ interaction_only_features' = interaction_only
    /\ pc' = "linear_terms_done"
    /\ UNCHANGED sym_model_fn
    /\ PolyUnchanged

\* gen_polynomial's noise terms
AddNoiseTerms ==
    /\ pc = "linear_terms_done"
    /\ args.noise_type \in {NO_NOISE, EPSILON_IRRELEVANT, ADDITIVE_GAUSSIAN}
    /\ sym_model_fn' = ModelExpression(args, relevant_features, sym_polynomial_fn)
    /\ pc' = "polynomial_done"
    /\ UNCHANGED <<relevant_feature_map, sym_polynomial_fn, interaction_only_features>>
    /\ PolyUnchanged

\* raise NotImplementedError("Unknown noise type")
AddNoiseTermsUnknown ==
    /\ pc = "linear_terms_done"
    /\ args.noise_type \notin {NO_NOISE, EPSILON_IRRELEVANT, ADDITIVE_GAUSSIAN}
    /\ pc' = "failed"
    /\ UNCHANGED <<relevant_feature_map, sym_polynomial_fn, interaction_only_features,
                   sym_model_fn>>
    /\ PolyUnchanged

PolyNext ==
    \/ UpdateInteractionTermsNone
    \/ UpdateInteractionTerms
    \/ UpdateInteractionTermsFloatSize
    \/ UpdateLinearTerms
    \/ AddNoiseTerms
    \/ AddNoiseTermsUnknown

SpecPoly == PolyInit /\ [][PolyNext]_vars

\* C7: in the relevance map gen_polynomial produces, no interaction-only
\* feature is a size-1 key; exactly floor(|touched| / 2) of the features touched
\* by interactions are interaction-only when the option is enabled and none
\* when it is disabled; and each member of every size-2 key is a size-1 key or
\* interaction-only.
C7_InteractionOnly ==
    pc \in {"linear_terms_done", "polynomial_done"} =>
        LET touched == UNION {k \in DOMAIN relevant_feature_map : Cardinality(k) = 2}
            unkeyed == {f \in touched : {f} \notin DOMAIN relevant_feature_map}
        IN /\ \A f \in interaction_only_features : {f} \notin DOMAIN relevant_feature_map
           /\ interaction_only_features \subseteq touched
           /\ unkeyed = interaction_only_features
           /\ Cardinality(unkeyed) =
                  IF args.include_interaction_only_features
                  THEN Cardinality(touched) \div 2
                  ELSE 0
           /\ \A k \in DOMAIN relevant_feature_map :
                  Cardinality(k) = 2 =>
                      \A f \in k : \/ {f} \in DOMAIN relevant_feature_map
                                    \/ f \in interaction_only_features

C7_Witness ==
    /\ pc = "polynomial_done"
    /\ args.include_interaction_only_features
    /\ Cardinality(interaction_only_features) = 1
    /\ Cardinality({k \in DOMAIN relevant_feature_map : Cardinality(k) = 2}) = 2
    /\ \E f \in relevant_features : {f} \in DOMAIN relevant_feature_map

-----------------------------------------------------------------------------
(* What gen_polynomial and gen_hierarchy can return *)

\* The relevant sets and relevance maps of gen_polynomial for N features, K
\* requested interactions, interaction coefficients drawn in `pair_coefs` and
\* linear coefficients drawn in `coefs`.
PolynomialsFor(N, K, include, pair_coefs, coefs) ==
    UNION { UNION { UNION { UNION {
        { LET M1 == update_interaction_terms(R, <<>>, <<>>, pairs, cf)
              M2 == update_linear_terms(R, M1.map, M1.poly, io, cs)
          IN [relevant_features |-> R, map |-> M2.map, poly |-> M2.poly,
              interaction_only |-> io]
          : cs \in [R -> coefs] }
        : io \in {x \in SUBSET (UNION pairs) :
                    Cardinality(x) = IF pairs # {} /\ include
                                     THEN Cardinality(UNION pairs) \div 2 ELSE 0} }
        : cf \in [pairs -> pair_coefs] }
        : pairs \in {ps \in SUBSET PotentialPairs(R) :
                       Cardinality(ps) = NumInteractions(K, Cardinality(R)).value} }
        : R \in (SUBSET (0..(N - 1))) \ {{}} }

\* Hierarchies and feature-id maps of gen_hierarchy for N features: the random
\* ones of the rotated and reversed orders, the clustered ones of the sorted
\* linkage matrices.
HierarchiesFor(N, type, contiguous) ==
    IF type = RANDOM
    THEN {ImproveVisualization(gen_random_hierarchy(N, order), contiguous) :
             order \in Rotations(N)}
    ELSE {ImproveVisualization(gen_hierarchy_from_clusters(N, clusters), contiguous) :
             clusters \in SortedLinkages(N)}

\* args.rng.uniform(size=num_features): the draws in which all features share
\* one probability
ProbVectors(N) == {[f \in 0..(N - 1) |-> p] : p \in Probs}

-----------------------------------------------------------------------------
(* Specification of relevance annotation and ground-truth p-values *)

RelInit ==
    /\ pc = "update_hierarchy_relevance"
    /\ \E N \in 1..MaxRelFeatures, K \in 0..MaxRelInteractions,
          ty \in {CLUSTER_FROM_DATA, RANDOM} :
          /\ args = [DefaultArgs EXCEPT !.num_features = N, !.num_interactions = K,
                                        !.hierarchy_type = ty]
          /\ \E P \in PolynomialsFor(N, K, args.include_interaction_only_features,
                                      {10}, Coeffs) :
                /\ relevant_features = P.relevant_features
                /\ relevant_feature_map = P.map
                /\ sym_polynomial_fn = P.poly
                /\ interaction_only_features = P.interaction_only
                /\ sym_model_fn = ModelExpression(args, P.relevant_features, P.poly)
          /\ probs \in ProbVectors(N)
          /\ \E H \in HierarchiesFor(N, ty, FALSE) :
                /\ hierarchy = H.T
                /\ feature_id_map = H.feature_id_map
    /\ fdr_tree = <<>>
    /\ interactions_tree = <<>>
    /\ results = <<>>
    /\ locals = <<>>
    /\ target = 0
    /\ stages = <<>>
    /\ artifacts = {}
    /\ calls = <<>>

RelUnchanged ==
    UNCHANGED <<args, relevant_features, relevant_feature_map, sym_polynomial_fn,
                interaction_only_features, sym_model_fn, probs, feature_id_map,
                fdr_tree, interactions_tree, results, locals, target, stages, artifacts, calls>>

\* update_hierarchy_relevance, run a first and a second time on the same inputs
UpdateHierarchyRelevance ==
    /\ pc \in {"update_hierarchy_relevance", "annotated"}
    /\ hierarchy' = update_hierarchy_relevance(hierarchy, relevant_feature_map, probs)
    /\ pc' = IF pc = "annotated" THEN "annotated_again" ELSE "annotated"
    /\ RelUnchanged

\* compare_with_ground_truth: the p-values it assigns and writes
CompareWithGroundTruth ==
    /\ pc = "annotated"
    /\ hierarchy' = ground_truth_pvalues(hierarchy)
    /\ pc' = "pvalues_done"
    /\ RelUnchanged

RelNext == UpdateHierarchyRelevance \/ CompareWithGroundTruth

SpecRel == RelInit /\ [][RelNext]_vars

RECURSIVE Descendants(_, _)
\* the nodes strictly below n
Descendants(T, n) ==
    Range(Children(T, n)) \cup UNION {Descendants(T, c) : c \in Range(Children(T, n))}

SubtreeLeaves(T, n) == {m \in Descendants(T, n) \cup {n} : IsLeaf(T, m)}

LeafIsIrrelevant(T, n, map) ==
    \A key \in DOMAIN map : PyInt(StaticIndices(T, n)) \notin key

\* C6, first part: a node's description is irrelevant iff every leaf of its
\* subtree is irrelevant, a leaf being irrelevant iff its feature index is in
\* no key of the relevance map.
C6_IrrelevantIffLeaves ==
    pc \in {"annotated", "annotated_again", "pvalues_done"} =>
        \A n \in NodeIds(hierarchy) :
            IsIrrelevant(hierarchy.description[n + 1])
            <=> \A l \in SubtreeLeaves(hierarchy, n) :
                    LeafIsIrrelevant(hierarchy, l, relevant_feature_map)

\* C6, second part: a second run of update_hierarchy_relevance on the same
\* inputs leaves every node's description unchanged.
C6_SecondRunSame ==
    (pc = "annotated" /\ pc' = "annotated_again")
        => hierarchy'.description = hierarchy.description

\* C6: after update_hierarchy_relevance a node is described as irrelevant iff
\* all leaves of its subtree are irrelevant, and annotating a second time
\* changes no description.
C6_RelevanceAnnotation == [](C6_IrrelevantIffLeaves) /\ [][C6_SecondRunSame]_vars

C6_Witness ==
    /\ pc = "annotated_again"
    /\ \E n \in InternalNodes(hierarchy) :
          /\ ~IsIrrelevant(hierarchy.description[n + 1])
          /\ \E c \in Range(Children(hierarchy, n)) :
                IsIrrelevant(hierarchy.description[c + 1])
    /\ \E n \in InternalNodes(hierarchy) : IsIrrelevant(hierarchy.description[n + 1])
    /\ \E l \in Leaves(hierarchy) :
          hierarchy.description[l + 1].text = "relevant feature (Interaction-only)"

ChildPvalues(T, n) == MapSeq(Children(T, n), LAMBDA c : T.pvalue[c + 1])

\* C2 as stated: after compare_with_ground_truth every internal node, relevant
\* or irrelevant, has a p-value strictly less than the minimum of its
\* children's p-values.
C2_AllInternalBelowChildren ==
    pc = "pvalues_done" =>
        \A n \in InternalNodes(hierarchy) :
            PLess(hierarchy.pvalue[n + 1], PMinSeq(ChildPvalues(hierarchy, n)))

\* C2 amended: every internal node that is not irrelevant has a p-value
\* strictly less than the minimum of its children's p-values; an irrelevant
\* internal node has p-value 1.0, equal to that of each of its children.
C2_RelevantInternalBelowChildren ==
    pc = "pvalues_done" =>
        \A n \in InternalNodes(hierarchy) :
            IF IsIrrelevant(hierarchy.description[n + 1])
            THEN /\ hierarchy.pvalue[n + 1] = POne
                 /\ \A c \in Range(Children(hierarchy, n)) :
                       PEqual(hierarchy.pvalue[c + 1], POne)
            ELSE PLess(hierarchy.pvalue[n + 1], PMinSeq(ChildPvalues(hierarchy, n)))

C2_Witness ==
    /\ pc = "pvalues_done"
    /\ \E n \in InternalNodes(hierarchy) :
          /\ ~IsIrrelevant(hierarchy.description[n + 1])
          /\ \E c \in Range(Children(hierarchy, n)) :
                ~IsLeaf(hierarchy, c) /\ ~IsIrrelevant(hierarchy.description[c + 1])
    /\ \E n \in InternalNodes(hierarchy) : IsIrrelevant(hierarchy.description[n + 1])

-----------------------------------------------------------------------------
(* evaluate and get_precision_recall_interactions *)

\* Fractions are pairs <<numerator, denominator>>; 0.0 is <<0, 1>>.
Zero == <<0, 1>>
FracEq(a, b) == a[1] * b[2] = b[1] * a[2]
\* 1 - x
OneMinus(x) == <<x[2] - x[1], x[2]>>

CountWhere(n, P(_)) == Cardinality({i \in 1..n : P(i)})

\* sklearn's precision_recall_fscore_support(y_true, y_pred, average="binary"):
\* a ratio with a zero denominator is reported as 0.0
precision_recall_fscore_support(y_true, y_pred) ==
    LET n == Len(y_true)
        tp == CountWhere(n, LAMBDA i : y_true[i] = 1 /\ y_pred[i] = 1)
        fp == CountWhere(n, LAMBDA i : y_true[i] = 0 /\ y_pred[i] = 1)
        fn == CountWhere(n, LAMBDA i : y_true[i] = 1 /\ y_pred[i] = 0)
    IN [precision |-> IF tp + fp = 0 THEN Zero ELSE <<tp, tp + fp>>,
        recall |-> IF tp + fn = 0 THEN Zero ELSE <<tp, tp + fn>>]

\* no outer filter: every node of the tree
OuterNodesUnfiltered(tree, nodes) == nodes

\* the outer filter with the condition on the children left out
OuterNodesAllRejected(tree, nodes) ==
    SelectSeq(nodes, LAMBDA node : tree.rejected[node + 1])

\* [node for node in nodes if node.rejected and
\*  all([not child.rejected for child in node.children])]
OuterNodes(tree, nodes) ==
    SelectSeq(nodes, LAMBDA node :
        /\ tree.rejected[node + 1]
        /\ \A i \in 1..Len(Children(tree.T, node)) :
              ~tree.rejected[Children(tree.T, node)[i] + 1])

LeafNodesOf(tree, nodes) == SelectSeq(nodes, LAMBDA node : IsLeaf(tree.T, node))

\* evaluate.get_relevant_rejected on the (already filtered) node list
get_relevant_rejected(tree, nodes) ==
    [relevant |-> MapSeq(nodes, LAMBDA node :
                     IF IsIrrelevant(tree.T.description[node + 1]) THEN 0 ELSE 1),
     rejected |-> MapSeq(nodes, LAMBDA node : IF tree.rejected[node + 1] THEN 1 ELSE 0)]

\* " + "
PairSeparator == <<" ", "+", " ">>

RECURSIVE Split(_, _, _)
\* s.split(sep), with cur the part being read
Split(s, sep, cur) ==
    IF s = <<>> THEN <<cur>>
    ELSE IF Len(s) >= Len(sep) /\ SubSeq(s, 1, Len(sep)) = sep
         THEN <<cur>> \o Split(SubSeq(s, Len(sep) + 1, Len(s)), sep, <<>>)
         ELSE Split(Tail(s), sep, Append(cur, Head(s)))

\* the pair a tested node names, without the feature-id map
TestedPairUntranslated(name, fmap) ==
    {PyInt(part) : part \in Range(Split(name, PairSeparator, <<>>))}

\* frozenset({int(idx) for idx in node.name.split(" + ")}), then through the
\* feature-id map when it is not empty
TestedPair(name, fmap) ==
    LET pair == {PyInt(part) : part \in Range(Split(name, PairSeparator, <<>>))}
    IN IF fmap # <<>> THEN {fmap[visual_id] : visual_id \in pair} ELSE pair

RECURSIVE CountTested(_, _, _, _)
\* for node in tree.children; c holds tp, fp, tn, fn and tested
CountTested(children, map, fmap, c) ==
    IF children = <<>> THEN c
    ELSE LET node == Head(children)
             pair == TestedPair(node.name, fmap)
             c1 == [c EXCEPT !.tested = @ \cup {pair}]
             c2 == IF node.rejected
                   THEN IF DictGet(map, pair) # 0
                        THEN [c1 EXCEPT !.tp = @ + 1]
                        ELSE [c1 EXCEPT !.fp = @ + 1]
                   ELSE IF DictGet(map, pair) # 0
                        THEN [c1 EXCEPT !.fn = @ + 1]
                        ELSE [c1 EXCEPT !.tn = @ + 1]
         IN CountTested(Tail(children), map, fmap, c2)

NoCounts == [tp |-> 0, fp |-> 0, tn |-> 0, fn |-> 0, tested |-> {}]

\* get_precision_recall_interactions; the counts are returned with the result
get_precision_recall_interactions(a, map, fmap, itree) ==
    IF ~a.analyze_interactions
    THEN [precision |-> Zero, recall |-> Zero, counts |-> NoCounts]
    ELSE LET true_interactions == {key \in DOMAIN map : Cardinality(key) > 1}
             c == CountTested(itree, map, fmap, NoCounts)
             missed == true_interactions \ c.tested
             fn == c.fn + Cardinality(missed)
         IN IF ~(c.tp > 0)
            THEN [precision |-> Zero, recall |-> Zero, counts |-> c]
            ELSE [precision |-> <<c.tp, c.tp + c.fp>>,
                  recall |-> <<c.tp, c.tp + fn>>,
                  counts |-> [c EXCEPT !.fn = fn]]

\* evaluate: the Results tuple, and the locals kept for inspection
evaluate(a, map, fmap, tree, itree) ==
    LET nodes == PreOrderFrom(tree.T, tree.T.root)
        all == get_relevant_rejected(tree, nodes)
        pr == precision_recall_fscore_support(all.relevant, all.rejected)
        outer_nodes == OuterNodes(tree, nodes)
        outer == get_relevant_rejected(tree, outer_nodes)
        outer_pr == precision_recall_fscore_support(outer.relevant, outer.rejected)
        bf == get_relevant_rejected(tree, LeafNodesOf(tree, nodes))
        bf_pr == precision_recall_fscore_support(bf.relevant, bf.rejected)
        inter == get_precision_recall_interactions(a, map, fmap, itree)
    IN [results |->
           [FDR |-> OneMinus(pr.precision), POWER |-> pr.recall,
            OUTER_NODES_FDR |-> OneMinus(outer_pr.precision),
            OUTER_NODES_POWER |-> outer_pr.recall,
            BASE_FEATURES_FDR |-> OneMinus(bf_pr.precision),
            BASE_FEATURES_POWER |-> bf_pr.recall,
            INTERACTIONS_FDR |-> OneMinus(inter.precision),
            INTERACTIONS_POWER |-> inter.recall],
        locals |-> [outer_nodes |-> outer_nodes, outer_relevant |-> outer.relevant,
                    outer_rejected |-> outer.rejected, interactions |-> inter.counts]]

-----------------------------------------------------------------------------
(* Specifications of the evaluation *)

\* pipeline up to run_mihifepe: polynomial, hierarchy, annotated hierarchy
EvalInitWith(N, K, include, ty, cn, analyze, hierarchies) ==
    /\ pc = "run_mihifepe"
    /\ args = [DefaultArgs EXCEPT !.num_features = N, !.num_interactions = K,
                                  !.include_interaction_only_features = include,
                                  !.hierarchy_type = ty,
                                  !.contiguous_node_names = cn,
                                  !.analyze_interactions = analyze]
    /\ \E P \in PolynomialsFor(N, K, include, {10}, {10}) :
          /\ relevant_features = P.relevant_features
          /\ relevant_feature_map = P.map
          /\ sym_polynomial_fn = P.poly
          /\ interaction_only_features = P.interaction_only
          /\ sym_model_fn = ModelExpression(args, P.relevant_features, P.poly)
    /\ probs \in {[f \in 0..(N - 1) |-> 10]}
    /\ \E H \in hierarchies :
          /\ hierarchy = update_hierarchy_relevance(H.T, relevant_feature_map, probs)
          /\ feature_id_map = H.feature_id_map
    /\ fdr_tree = <<>>
    /\ interactions_tree = <<>>
    /\ results = <<>>
    /\ locals = <<>>
    /\ target = 0
    /\ stages = <<>>
    /\ artifacts = {}
    /\ calls = <<>>

\* interaction analysis disabled: every hierarchy, every relevant set
EvalInit ==
    \E N \in 1..MaxEvalFeatures, ty \in {CLUSTER_FROM_DATA, RANDOM} :
        EvalInitWith(N, 0, TRUE, ty, FALSE, FALSE, HierarchiesFor(N, ty, FALSE))

\* interaction analysis enabled: every set of planted pairs, node names
\* contiguous or not, the random hierarchies of the reversed rotations
InterInit ==
    \E N \in 2..MaxInterFeatures, K \in 0..MaxInterPairs, cn \in BOOLEAN :
        EvalInitWith(N, K, FALSE, RANDOM, cn, TRUE,
                     {ImproveVisualization(gen_random_hierarchy(N, order), cn) :
                         order \in ReversedRotations(N)})

\* The tested pairs of the interactions tree: level-2 nodes named
\* "<leaf name> + <leaf name>", at most MaxTested of them, each rejected or not.
PairName(T, a, b) == Name(T, a) \o PairSeparator \o Name(T, b)

RECURSIVE TestedNodes(_, _, _)
TestedNodes(T, pairs, flags) ==
    IF pairs = <<>> THEN <<>>
    ELSE <<[name |-> PairName(T, Head(pairs)[1], Head(pairs)[2]),
            rejected |-> flags[Head(pairs)]]>>
         \o TestedNodes(T, Tail(pairs), flags)

LeafPairs(T) == {p \in Leaves(T) \X Leaves(T) : p[1] < p[2]}

RECURSIVE PairsToSeq(_)
PairsToSeq(S) == IF S = {} THEN <<>>
                 ELSE LET m == CHOOSE x \in S : \A y \in S :
                                   x[1] < y[1] \/ (x[1] = y[1] /\ x[2] <= y[2])
                      IN <<m>> \o PairsToSeq(S \ {m})

InteractionTrees(T) ==
    UNION {{TestedNodes(T, PairsToSeq(ps), flags) : flags \in [ps -> BOOLEAN]}
           : ps \in {x \in SUBSET LeafPairs(T) : Cardinality(x) <= MaxTested}}

EvalUnchanged ==
    UNCHANGED <<args, relevant_features, relevant_feature_map, sym_polynomial_fn,
                interaction_only_features, sym_model_fn, probs, hierarchy,
                feature_id_map, target, stages, artifacts, calls>>

\* run_mihifepe: the discovery algorithm writes the discovery tree (the
\* hierarchy with a rejected flag on every node) and, when interactions are
\* analysed, the interactions tree
RunMihifepe ==
    /\ pc = "run_mihifepe"
    /\ \E rejected \in [1..Len(hierarchy.parent) -> BOOLEAN] :
          /\ args.analyze_interactions => \A i \in DOMAIN rejected : ~rejected[i]
          /\ fdr_tree' = [T |-> hierarchy, rejected |-> rejected]
    /\ IF args.analyze_interactions
       THEN interactions_tree' \in InteractionTrees(hierarchy)
       ELSE interactions_tree' = <<>>
    /\ pc' = "evaluate"
    /\ UNCHANGED <<results, locals>>
    /\ EvalUnchanged

Evaluate ==
    /\ pc = "evaluate"
    /\ LET r == evaluate(args, relevant_feature_map, feature_id_map, fdr_tree,
                         interactions_tree)
       IN results' = r.results /\ locals' = r.locals
    /\ pc' = "done"
    /\ UNCHANGED <<fdr_tree, interactions_tree>>
    /\ EvalUnchanged

EvalNext == RunMihifepe \/ Evaluate

SpecEval == EvalInit /\ [][EvalNext]_vars

SpecInter == InterInit /\ [][EvalNext]_vars

-----------------------------------------------------------------------------
(* Properties of the evaluation *)

Rejected(n) == fdr_tree.rejected[n + 1]

\* C1 as stated: with interaction analysis disabled the interaction
\* (FDR, power) pair of the Results is (0.0, 0.0).
C1_InteractionsDisabledZero ==
    (pc = "done" /\ ~args.analyze_interactions) =>
        /\ FracEq(results.INTERACTIONS_FDR, Zero)
        /\ FracEq(results.INTERACTIONS_POWER, Zero)

RejectedNoRejectedDescendant ==
    {n \in NodeIds(hierarchy) :
        Rejected(n) /\ \A d \in Descendants(hierarchy, n) : ~Rejected(d)}

RejectedNoRejectedChild ==
    {n \in NodeIds(hierarchy) :
        Rejected(n) /\ \A c \in Range(Children(hierarchy, n)) : ~Rejected(c)}

\* every rejected node other than the root has a rejected parent
RejectedAncestorClosed ==
    \A n \in NodeIds(hierarchy) \ {hierarchy.root} :
        Rejected(n) => Rejected(Parent(hierarchy, n))

\* C4 as stated: the nodes used for the outer-nodes metric are exactly the
\* rejected nodes with no rejected descendant at any depth.
C4_OuterNoRejectedDescendant ==
    pc = "done" => Range(locals.outer_nodes) = RejectedNoRejectedDescendant

\* C4 amended: the nodes used for the outer-nodes metric are exactly the
\* rejected nodes with no rejected child, each once; they are the rejected
\* nodes with no rejected descendant whenever every rejected node's parent is
\* rejected too.
C4_OuterNoRejectedChild ==
    pc = "done" =>
        /\ Range(locals.outer_nodes) = RejectedNoRejectedChild
        /\ Len(locals.outer_nodes) = Cardinality(RejectedNoRejectedChild)
        /\ RejectedAncestorClosed =>
               Range(locals.outer_nodes) = RejectedNoRejectedDescendant

C4_Witness ==
    /\ pc = "done"
    /\ RejectedAncestorClosed
    /\ \E n \in Range(locals.outer_nodes) : ~IsLeaf(hierarchy, n) /\ n # hierarchy.root
    /\ \E n \in NodeIds(hierarchy) : Rejected(n) /\ n \notin Range(locals.outer_nodes)

\* C5 as stated: when no node is rejected and at least one node is relevant,
\* the all-nodes power is 0 and the all-nodes FDR is 0.
C5_NothingRejectedZero ==
    (/\ pc = "done"
     /\ \A n \in NodeIds(hierarchy) : ~Rejected(n)
     /\ \E n \in NodeIds(hierarchy) : ~IsIrrelevant(hierarchy.description[n + 1]))
    => /\ FracEq(results.POWER, Zero)
       /\ FracEq(results.FDR, Zero)

\* The features a tested node names: those of the leaves whose names are the
\* parts of the node's name.
NamedFeatures(name) ==
    {PyInt(StaticIndices(hierarchy, l)) :
        l \in {x \in Leaves(hierarchy) :
                  Name(hierarchy, x) \in Range(Split(name, PairSeparator, <<>>))}}

PlantedPairs == {key \in DOMAIN relevant_feature_map : Cardinality(key) = 2}

TestedCount(rejected, planted) ==
    Cardinality({i \in 1..Len(interactions_tree) :
        /\ interactions_tree[i].rejected = rejected
        /\ (NamedFeatures(interactions_tree[i].name) \in PlantedPairs) = planted})

UntestedPlanted ==
    PlantedPairs \ {NamedFeatures(interactions_tree[i].name) :
                       i \in 1..Len(interactions_tree)}

\* C3: with analysis enabled each tested pair node is counted in exactly one
\* of TP/FP/FN/TN according to (rejected, its pair of features is a size-2 key
\* of the relevance map), the ids being translated through the feature-id map;
\* and when TP > 0 every planted pair that was not tested counts as one more
\* false negative, precision = TP/(TP+FP) and recall = TP/(TP+FN).
C3_InteractionCounts ==
    (pc = "done" /\ args.analyze_interactions) =>
        LET c == locals.interactions
            tp == TestedCount(TRUE, TRUE)
            fp == TestedCount(TRUE, FALSE)
            fn == TestedCount(FALSE, TRUE)
            tn == TestedCount(FALSE, FALSE)
            missed == Cardinality(UntestedPlanted)
        IN /\ c.tp = tp /\ c.fp = fp /\ c.tn = tn
           /\ tp + fp + fn + tn = Len(interactions_tree)
           /\ IF tp > 0
              THEN /\ c.fn = fn + missed
                   /\ FracEq(results.INTERACTIONS_FDR, OneMinus(<<tp, tp + fp>>))
                   /\ FracEq(results.INTERACTIONS_POWER, <<tp, tp + fn + missed>>)
              ELSE /\ c.fn = fn
                   /\ FracEq(results.INTERACTIONS_FDR, OneMinus(Zero))
                   /\ FracEq(results.INTERACTIONS_POWER, Zero)

C3_Witness ==
    /\ pc = "done"
    /\ args.analyze_interactions
    /\ feature_id_map # <<>>
    /\ \E v \in DOMAIN feature_id_map : feature_id_map[v] # v
    /\ locals.interactions.tp = 1
    /\ locals.interactions.fp = 1
    /\ Cardinality(UntestedPlanted) = 1
    /\ results.INTERACTIONS_POWER = <<1, 2>>

-----------------------------------------------------------------------------
(* Model.predict (model.py) *)

MaxPredictFeatures == 2
MaxCalls == 3

\* the draws of a random source are multiples of 1/DrawDen in [-1, 1]
DrawDen == 2
\* hash values lie in 0..(HashRange - 1)
HashRange == 64
HashPrime == 31

\* the 0/1 static vectors of N features
StaticVectors(N) == [1..N -> {0, 1}]

RECURSIVE ToBytes(_)
\* static_data.data.tobytes(): each element as eight little-endian bytes
ToBytes(static_data) ==
    IF static_data = <<>> THEN <<>>
    ELSE <<Head(static_data), 0, 0, 0, 0, 0, 0, 0>> \o ToBytes(Tail(static_data))

RECURSIVE HashFrom(_, _)
HashFrom(h, bytes) ==
    IF bytes = <<>> THEN h
    ELSE HashFrom((h * HashPrime + Head(bytes) + 1) % HashRange, Tail(bytes))

\* hashxx: a fixed function of the bytes into a finite range, so that distinct
\* byte strings may collide
hashxx(bytes) == HashFrom(Len(bytes) % HashRange, bytes)

\* a seed taken from the calls made before instead of from the bytes
PredictSeedCarried(static_data, history) == Len(history)

\* hashval, the seed of the local random source; `history` is what the
\* process carries from the calls made before, which the seed does not read
PredictSeed(static_data, history) == hashxx(ToBytes(static_data))

\* the i-th draw of np.random.RandomState(seed), as a multiple of 1/DrawDen
Draw(seed, i) == (((seed + 1) * (2 * i + 3)) % (2 * DrawDen + 1)) - DrawDen

RECURSIVE SumTerms(_, _, _)
SumTerms(poly, keys, static_data) ==
    IF keys = {} THEN 0
    ELSE LET key == CHOOSE k \in keys : TRUE
             term == IF \A x \in key : static_data[x + 1] = 1 THEN poly[key] ELSE 0
         IN term + SumTerms(poly, keys \ {key}, static_data)

\* the ground-truth polynomial on a static vector, in units of 1/UnitDen
PolyValue(poly, static_data) == SumTerms(poly, DOMAIN poly, static_data)

RECURSIVE NoiseDot(_, _, _, _)
\* (sym_noise * irrelevant_features).dot(sym_features), from feature x on
NoiseDot(noise, irrelevant_features, static_data, x) ==
    IF x >= Len(static_data) THEN 0
    ELSE noise[x + 1] * irrelevant_features[x] * static_data[x + 1]
         + NoiseDot(noise, irrelevant_features, static_data, x + 1)

\* model_fn(static_data, noise)[0], in units of 1/(UnitDen * DrawDen)
model_fn(expr, static_data, noise) ==
    PolyValue(expr.poly, static_data) * DrawDen
    + (IF expr.noise = EPSILON_IRRELEVANT
       THEN NoiseDot(noise, expr.irrelevant_features, static_data, 0)
       ELSE IF expr.noise = ADDITIVE_GAUSSIAN THEN noise
       ELSE 0)

Abs(v) == IF v < 0 THEN 0 - v ELSE v

\* Model.predict: what it raises, or the seed, the noise drawn and the
\* returned (loss, prediction); target is in units of 1/UnitDen
predict(self, tgt, static_data, history) ==
    LET hashval == PredictSeed(static_data, history)
    IN IF self.noise_type = EPSILON_IRRELEVANT
       THEN LET noise == [i \in 1..Len(static_data) |->
                             self.noise_multiplier * Draw(hashval, i - 1)]
                prediction == model_fn(self.model_fn, static_data, noise)
            IN [raised |-> "none", seed |-> hashval, noise |-> noise,
                prediction |-> prediction,
                loss |-> Abs(prediction - tgt * DrawDen)]
       ELSE IF self.noise_type = ADDITIVE_GAUSSIAN
       THEN LET noise == self.noise_multiplier * Draw(hashval, 0)
                prediction == model_fn(self.model_fn, static_data, noise)
            IN [raised |-> "none", seed |-> hashval, noise |-> noise,
                prediction |-> prediction,
                loss |-> Abs(prediction - tgt * DrawDen)]
       ELSE [raised |-> "NotImplementedError"]

\* the noise types gen_polynomial accepts
ModelNoiseTypes == {NO_NOISE, EPSILON_IRRELEVANT, ADDITIVE_GAUSSIAN}

\* Model(model_fn, noise_multiplier, noise_type)
Model == [model_fn |-> sym_model_fn, noise_multiplier |-> args.noise_multiplier,
          noise_type |-> args.noise_type]

\* A model written by the simulation, and an instance whose target is the
\* ground-truth polynomial's value on its unperturbed static vector.
PredictInit ==
    /\ pc = "model"
    /\ \E N \in 1..MaxPredictFeatures, nt \in ModelNoiseTypes :
          /\ args = [DefaultArgs EXCEPT !.num_features = N, !.noise_type = nt,
                                        !.noise_multiplier = 1]
          /\ \E P \in PolynomialsFor(N, 0, TRUE, {10}, {10}) :
                /\ relevant_features = P.relevant_features
                /\ relevant_feature_map = P.map
                /\ sym_polynomial_fn = P.poly
                /\ interaction_only_features = P.interaction_only
                /\ sym_model_fn = ModelExpression(args, P.relevant_features, P.poly)
                /\ target \in {PolyValue(P.poly, x) : x \in StaticVectors(N)}
    /\ probs = <<>>
    /\ hierarchy = EmptyTree
    /\ feature_id_map = <<>>
    /\ fdr_tree = <<>>
    /\ interactions_tree = <<>>
    /\ results = <<>>
    /\ locals = <<>>
    /\ stages = <<>>
    /\ artifacts = {}
    /\ calls = <<>>

PredictUnchanged ==
    UNCHANGED <<args, relevant_features, relevant_feature_map, sym_polynomial_fn,
                interaction_only_features, sym_model_fn, probs, hierarchy,
                feature_id_map, fdr_tree, interactions_tree, results, locals, target,
                stages, artifacts>>

\* a predict call that returns (loss, prediction)
Predict ==
    /\ pc = "model"
    /\ Len(calls) < MaxCalls
    /\ \E static_data \in StaticVectors(args.num_features) :
          LET outcome == predict(Model, target, static_data, calls)
          IN /\ outcome.raised = "none"
             /\ calls' = Append(calls, [static_data |-> static_data, target |-> target,
                                        outcome |-> outcome])
    /\ pc' = pc
    /\ PredictUnchanged

\* a predict call that raises: the run stops
PredictRaises ==
    /\ pc = "model"
    /\ Len(calls) < MaxCalls
    /\ \E static_data \in StaticVectors(args.num_features) :
          LET outcome == predict(Model, target, static_data, calls)
          IN /\ outcome.raised # "none"
             /\ calls' = Append(calls, [static_data |-> static_data, target |-> target,
                                        outcome |-> outcome])
    /\ pc' = "failed"
    /\ PredictUnchanged

PredictNext == Predict \/ PredictRaises

SpecPredict == PredictInit /\ [][PredictNext]_vars

\* C8 as stated: a Model built with noise type no-noise returns the
\* ground-truth polynomial's value as prediction and |prediction - target| as
\* loss, rather than failing.
C8_NoNoisePredicts ==
    \A i \in 1..Len(calls) :
        args.noise_type = NO_NOISE =>
            LET o == calls[i].outcome
                truth == PolyValue(sym_polynomial_fn, calls[i].static_data) * DrawDen
            IN /\ o.raised = "none"
               /\ o.prediction = truth
               /\ o.loss = Abs(truth - calls[i].target * DrawDen)

-----------------------------------------------------------------------------
(* Derived statistics and the feature-id map of gen_hierarchy *)

NumBaseFeatures(T, n) == T.num_base_features[n + 1]

BaseFeatureCounts(T, N) ==
    /\ NumBaseFeatures(T, T.root) = N
    /\ \A n \in InternalNodes(T) :
          NumBaseFeatures(T, n) = Cardinality(SubtreeLeaves(T, n))

\* C11 as stated: for every hierarchy gen_hierarchy returns, contiguous node
\* names enabled or not, the root's num_base_features is N and every internal
\* node's num_base_features is the number of leaves in its subtree.
C11_NumBaseFeaturesAlways ==
    pc = "hierarchy_done" => BaseFeatureCounts(hierarchy, args.num_features)

\* C11 amended: with contiguous node names enabled the root's
\* num_base_features is N, every internal node's is the number of leaves in
\* its subtree and every leaf's is 1; with them disabled gen_hierarchy sets
\* num_base_features on no node.
C11_NumBaseFeaturesContiguous ==
    pc = "hierarchy_done" =>
        IF args.contiguous_node_names
        THEN /\ BaseFeatureCounts(hierarchy, args.num_features)
             /\ \A n \in Leaves(hierarchy) : NumBaseFeatures(hierarchy, n) = 1
        ELSE \A n \in NodeIds(hierarchy) : NumBaseFeatures(hierarchy, n) = NoIndex

C11_Witness ==
    /\ pc = "hierarchy_done"
    /\ args.contiguous_node_names
    /\ args.hierarchy_type = CLUSTER_FROM_DATA
    /\ \E n \in InternalNodes(hierarchy) :
          /\ n # hierarchy.root
          /\ NumBaseFeatures(hierarchy, n) = 3
          /\ Len(Children(hierarchy, n)) = 2

\* the original feature index of a leaf
LeafFeature(T, n) == PyInt(StaticIndices(T, n))

\* C12: with contiguous node names enabled, feature_id_map applied to a leaf's
\* new contiguous id (its new name) is the leaf's original feature index, the
\* map is injective with values exactly 0..N-1, and a tested pair named by two
\* leaves' contiguous ids translates in get_precision_recall_interactions to
\* the pair of their original feature indices.
C12_FeatureIdRoundTrip ==
    (pc = "hierarchy_done" /\ args.contiguous_node_names) =>
        /\ \A n \in Leaves(hierarchy) :
              /\ PyInt(Name(hierarchy, n)) \in DOMAIN feature_id_map
              /\ feature_id_map[PyInt(Name(hierarchy, n))] = LeafFeature(hierarchy, n)
        /\ \A v, w \in DOMAIN feature_id_map :
              feature_id_map[v] = feature_id_map[w] => v = w
        /\ {feature_id_map[v] : v \in DOMAIN feature_id_map} = 0..(args.num_features - 1)
        /\ \A a, b \in Leaves(hierarchy) :
              a # b => TestedPair(PairName(hierarchy, a, b), feature_id_map)
                       = {LeafFeature(hierarchy, a), LeafFeature(hierarchy, b)}

C12_Witness ==
    /\ pc = "hierarchy_done"
    /\ args.contiguous_node_names
    /\ \E a, b \in Leaves(hierarchy) :
          /\ PyInt(Name(hierarchy, a)) >= 10
          /\ PyInt(Name(hierarchy, b)) < 10
          /\ PyInt(Name(hierarchy, b)) # LeafFeature(hierarchy, b)
          /\ PyInt(Name(hierarchy, b)) \in 0..(args.num_features - 1)
          /\ TestedPair(PairName(hierarchy, a, b), feature_id_map)
             # {PyInt(Name(hierarchy, a)), PyInt(Name(hierarchy, b))}

-----------------------------------------------------------------------------
(* pipeline *)

MaxPipeFeatures == 2       \* num_features for the whole pipeline

\* the calls of pipeline, in the order of its body
StageOrder ==
    <<"gen_polynomial", "synthesize_data", "gen_hierarchy",
      "update_hierarchy_relevance", "gen_targets", "write_data", "write_hierarchy",
      "write_model", "run_mihifepe", "compare_with_ground_truth", "evaluate",
      "write_results">>

StageIndex(stage) == CHOOSE i \in 1..Len(StageOrder) : StageOrder[i] = stage

\* where pipeline is once the call of `stage` has returned
Return(stage) ==
    IF StageIndex(stage) = Len(StageOrder) THEN "done"
    ELSE StageOrder[StageIndex(stage) + 1]

\* an exception handled inside pipeline, which then carries on
RaiseCaught(stage) == Return(stage)

\* where pipeline is once the call of `stage` has raised: nothing in pipeline
\* or main catches an exception
Raise(stage) == "failed"

\* the files of the output directory
DATA_FILE == "data.hdf5"
HIERARCHY_FILE == "hierarchy.csv"
MODEL_FILES == {"model", "gen_model_config", "gen_model.py"}
FDR_TREE_FILE == "hierarchical_fdr/outputs.json"
PVALUES_FILE == "ground_truth_pvalues.csv"
GROUND_TRUTH_DIR == "ground_truth_fdr"
RESULTS_FILE == "simulation_results"

PipeInit ==
    /\ pc = StageOrder[1]
    /\ \E N \in 1..MaxPipeFeatures, nt \in NoiseTypes,
          ty \in {CLUSTER_FROM_DATA, RANDOM, UNKNOWN_TYPE} :
          args = [DefaultArgs EXCEPT !.num_features = N, !.noise_type = nt,
                                    !.hierarchy_type = ty]
    /\ Idle

\* the call of `stage` begins
Begin(stage) == pc = stage /\ stages' = Append(stages, stage)

PipeGenPolynomial ==
    /\ Begin("gen_polynomial")
    /\ IF args.noise_type \in ModelNoiseTypes
       THEN /\ \E P \in PolynomialsFor(args.num_features, args.num_interactions,
                                      args.include_interaction_only_features,
                                      {10}, {10}) :
                  /\ relevant_features' = P.relevant_features
                  /\ relevant_feature_map' = P.map
                  /\ sym_polynomial_fn' = P.poly
                  /\ interaction_only_features' = P.interaction_only
                  /\ sym_model_fn' = ModelExpression(args, P.relevant_features, P.poly)
            /\ pc' = Return("gen_polynomial")
       ELSE /\ pc' = Raise("gen_polynomial")
            /\ UNCHANGED <<relevant_features, relevant_feature_map, sym_polynomial_fn,
                           interaction_only_features, sym_model_fn>>
    /\ UNCHANGED <<args, probs, hierarchy, feature_id_map, fdr_tree, interactions_tree,
                   results, locals, target, artifacts, calls>>

PipeSynthesizeData ==
    /\ Begin("synthesize_data")
    /\ probs' \in ProbVectors(args.num_features)
    /\ pc' = Return("synthesize_data")
    /\ UNCHANGED <<args, relevant_features, relevant_feature_map, sym_polynomial_fn,
                   interaction_only_features, sym_model_fn, hierarchy, feature_id_map,
                   fdr_tree, interactions_tree, results, locals, target, artifacts, calls>>

PipeGenHierarchy ==
    /\ Begin("gen_hierarchy")
    /\ IF args.hierarchy_type \in {CLUSTER_FROM_DATA, RANDOM}
       THEN /\ \E H \in HierarchiesFor(args.num_features, args.hierarchy_type,
                                      args.contiguous_node_names) :
                  hierarchy' = H.T /\ feature_id_map' = H.feature_id_map
            /\ pc' = Return("gen_hierarchy")
       ELSE /\ pc' = Raise("gen_hierarchy")
            /\ UNCHANGED <<hierarchy, feature_id_map>>
    /\ UNCHANGED <<args, relevant_features, relevant_feature_map, sym_polynomial_fn,
                   interaction_only_features, sym_model_fn, probs, fdr_tree,
                   interactions_tree, results, locals, target, artifacts, calls>>

PipeUpdateHierarchyRelevance ==
    /\ Begin("update_hierarchy_relevance")
    /\ hierarchy' = update_hierarchy_relevance(hierarchy, relevant_feature_map, probs)
    /\ pc' = Return("update_hierarchy_relevance")
    /\ UNCHANGED <<args, relevant_features, relevant_feature_map, sym_polynomial_fn,
                   interaction_only_features, sym_model_fn, probs, feature_id_map,
                   fdr_tree, interactions_tree, results, locals, target, artifacts, calls>>

\* what a stage that only writes files leaves alone
PipeDataUnchanged ==
    UNCHANGED <<args, relevant_features, relevant_feature_map, sym_polynomial_fn,
                interaction_only_features, sym_model_fn, probs, hierarchy,
                feature_id_map, fdr_tree, interactions_tree, results, locals, target,
                calls>>

PipeGenTargets ==
    /\ Begin("gen_targets")
    /\ pc' = Return("gen_targets")
    /\ UNCHANGED artifacts
    /\ PipeDataUnchanged

\* write_data: the file is written, or the write raises (OSError)
PipeWriteData ==
    /\ Begin("write_data")
    /\ \/ artifacts' = artifacts \cup {DATA_FILE} /\ pc' = Return("write_data")
       \/ artifacts' = artifacts /\ pc' = Raise("write_data")
    /\ PipeDataUnchanged

\* write_hierarchy: the file is written, or the write raises (OSError)
PipeWriteHierarchy ==
    /\ Begin("write_hierarchy")
    /\ \/ artifacts' = artifacts \cup {HIERARCHY_FILE} /\ pc' = Return("write_hierarchy")
       \/ artifacts' = artifacts /\ pc' = Raise("write_hierarchy")
    /\ PipeDataUnchanged

\* write_model: the file is written, or the write raises (OSError)
PipeWriteModel ==
    /\ Begin("write_model")
    /\ \/ artifacts' = artifacts \cup MODEL_FILES /\ pc' = Return("write_model")
       \/ artifacts' = artifacts /\ pc' = Raise("write_model")
    /\ PipeDataUnchanged

\* run_mihifepe: master.main() is called in-process; it returns having written
\* the discovery tree, returns without it, or raises
PipeRunMihifepe ==
    /\ Begin("run_mihifepe")
    /\ \/ /\ \E rejected \in [1..Len(hierarchy.parent) -> BOOLEAN] :
                fdr_tree' = [T |-> hierarchy, rejected |-> rejected]
          /\ artifacts' = artifacts \cup {FDR_TREE_FILE}
          /\ pc' = Return("run_mihifepe")
       \/ /\ UNCHANGED <<fdr_tree, artifacts>>
          /\ pc' = Return("run_mihifepe")
       \/ /\ UNCHANGED <<fdr_tree, artifacts>>
          /\ pc' = Raise("run_mihifepe")
    /\ UNCHANGED <<args, relevant_features, relevant_feature_map, sym_polynomial_fn,
                   interaction_only_features, sym_model_fn, probs, hierarchy,
                   feature_id_map, interactions_tree, results, locals, target, calls>>

\* compare_with_ground_truth: the p-values are assigned and written, then
\* hierarchical_fdr_control.main() is called in-process and returns or raises
PipeCompareWithGroundTruth ==
    /\ Begin("compare_with_ground_truth")
    /\ hierarchy' = ground_truth_pvalues(hierarchy)
    /\ \/ /\ artifacts' = artifacts \cup {PVALUES_FILE, GROUND_TRUTH_DIR}
          /\ pc' = Return("compare_with_ground_truth")
       \/ /\ artifacts' = artifacts \cup {PVALUES_FILE}
          /\ pc' = Raise("compare_with_ground_truth")
    /\ UNCHANGED <<args, relevant_features, relevant_feature_map, sym_polynomial_fn,
                   interaction_only_features, sym_model_fn, probs, feature_id_map,
                   fdr_tree, interactions_tree, results, locals, target, calls>>

\* evaluate: open(tree_filename) raises when the discovery tree is missing
PipeEvaluate ==
    /\ Begin("evaluate")
    /\ IF FDR_TREE_FILE \in artifacts
       THEN /\ LET r == evaluate(args, relevant_feature_map, feature_id_map, fdr_tree,
                                 interactions_tree)
               IN results' = r.results /\ locals' = r.locals
            /\ pc' = Return("evaluate")
       ELSE /\ UNCHANGED <<results, locals>>
            /\ pc' = Raise("evaluate")
    /\ UNCHANGED <<args, relevant_features, relevant_feature_map, sym_polynomial_fn,
                   interaction_only_features, sym_model_fn, probs, hierarchy,
                   feature_id_map, fdr_tree, interactions_tree, target, artifacts, calls>>

\* write_results: the file is written, or the write raises (OSError)
PipeWriteResults ==
    /\ Begin("write_results")
    /\ \/ artifacts' = artifacts \cup {RESULTS_FILE} /\ pc' = Return("write_results")
       \/ artifacts' = artifacts /\ pc' = Raise("write_results")
    /\ PipeDataUnchanged

PipeNext ==
    \/ PipeGenPolynomial
    \/ PipeSynthesizeData
    \/ PipeGenHierarchy
    \/ PipeUpdateHierarchyRelevance
    \/ PipeGenTargets
    \/ PipeWriteData
    \/ PipeWriteHierarchy
    \/ PipeWriteModel
    \/ PipeRunMihifepe
    \/ PipeCompareWithGroundTruth
    \/ PipeEvaluate
    \/ PipeWriteResults

SpecPipe == PipeInit /\ [][PipeNext]_vars

\* the stages begun are the first ones of the order, each once
StagesInOrder ==
    /\ Len(stages) <= Len(StageOrder)
    /\ \A i \in 1..Len(stages) : stages[i] = StageOrder[i]

\* the position agrees with the stages begun: the next stage of the order,
\* the end after the last one, or the failure of the last stage begun
PipePosition ==
    \/ pc = "failed" /\ stages # <<>>
    \/ pc = "done" /\ stages = StageOrder
    \/ Len(stages) < Len(StageOrder) /\ pc = StageOrder[Len(stages) + 1]

NoResultsUnlessComplete ==
    /\ pc = "failed" => RESULTS_FILE \notin artifacts
    /\ RESULTS_FILE \in artifacts => (pc = "done" /\ stages = StageOrder)
    /\ args.noise_type \notin ModelNoiseTypes
          => /\ Len(stages) <= StageIndex("gen_polynomial")
             /\ stages # <<>> => pc = "failed"
    /\ (args.noise_type \in ModelNoiseTypes
        /\ args.hierarchy_type \notin {CLUSTER_FROM_DATA, RANDOM})
          => /\ Len(stages) <= StageIndex("gen_hierarchy")
             /\ Len(stages) = StageIndex("gen_hierarchy") => pc = "failed"

\* once a stage has failed nothing more happens
FailureIsFinal == pc = "failed" => (stages' = stages /\ artifacts' = artifacts /\ pc' = pc)

-----------------------------------------------------------------------------
(* The p-value of a leaf with a linear term *)

LinearLeaves(T) == {n \in Leaves(T) : T.poly_coeff[n + 1] # 0}

\* (poly_coeff * bin_prob) ** 3 > 1e-7, both counted in units of 1/UnitDen
ProductCubeAboveThreshold(coeff, prob) ==
    coeff * coeff * coeff * prob * prob * prob * 10
        > (UnitDen * UnitDen * UnitDen * UnitDen * UnitDen * UnitDen) \div 1000000

\* C14 as stated: after compare_with_ground_truth every leaf with a nonzero
\* linear coefficient has a p-value strictly less than the baseline 0.001.
C14_LinearLeafBelowBaseline ==
    pc = "pvalues_done" =>
        \A n \in LinearLeaves(hierarchy) : PLess(hierarchy.pvalue[n + 1], PLeafBaseline)

\* C14 amended: after compare_with_ground_truth every leaf with a nonzero
\* linear coefficient has a p-value at most the baseline 0.001, and strictly
\* less exactly when (coefficient * probability) ** 3 > 1e-7; otherwise it
\* equals the baseline.
C14_LinearLeafAtMostBaseline ==
    pc = "pvalues_done" =>
        \A n \in LinearLeaves(hierarchy) :
            /\ ~PLess(PLeafBaseline, hierarchy.pvalue[n + 1])
            /\ PLess(hierarchy.pvalue[n + 1], PLeafBaseline)
               <=> ProductCubeAboveThreshold(hierarchy.poly_coeff[n + 1],
                                             hierarchy.bin_prob[n + 1])

C14_Witness ==
    /\ pc = "pvalues_done"
    /\ \E m, n \in LinearLeaves(hierarchy) :
          /\ PEqual(hierarchy.pvalue[m + 1], PLeafBaseline)
          /\ PLess(hierarchy.pvalue[n + 1], PLeafBaseline)

-----------------------------------------------------------------------------
(* The number of pairs update_interaction_terms records *)

SizeTwoKeys(map) == {key \in DOMAIN map : Cardinality(key) = 2}

\* C15 as stated: update_interaction_terms records exactly
\* min(K, |R| * (|R| - 1) / 2) size-2 keys, each a pair of two distinct
\* features of R; with K = 0 or |R| = 1 it records none and leaves the
\* polynomial unchanged.
C15_RecordsMinPairs ==
    pc # "gen_polynomial" =>
        LET K == args.num_interactions
            n == Cardinality(relevant_features)
            cap == (n * (n - 1)) \div 2
        IN /\ Cardinality(SizeTwoKeys(relevant_feature_map))
                 = IF K < cap THEN K ELSE cap
           /\ SizeTwoKeys(relevant_feature_map) \subseteq PotentialPairs(relevant_features)
           /\ (K = 0 \/ n = 1) =>
                 /\ SizeTwoKeys(relevant_feature_map) = {}
                 /\ pc = "interaction_terms_done" => sym_polynomial_fn = <<>>

-----------------------------------------------------------------------------
(* The outer-nodes power *)

RelevantOuterNodes ==
    {n \in RejectedNoRejectedChild : ~IsIrrelevant(hierarchy.description[n + 1])}

\* C16: every node of the outer-nodes label vector is rejected, so its
\* prediction vector is all ones; the outer-nodes power is 1 when at least one
\* outer node is relevant and 0 otherwise, never strictly in between.
C16_OuterPowerZeroOrOne ==
    pc = "done" =>
        /\ \A i \in 1..Len(locals.outer_nodes) : Rejected(locals.outer_nodes[i])
        /\ \A i \in 1..Len(locals.outer_rejected) : locals.outer_rejected[i] = 1
        /\ Len(locals.outer_rejected) = Len(locals.outer_nodes)
        /\ IF RelevantOuterNodes # {}
           THEN FracEq(results.OUTER_NODES_POWER, <<1, 1>>)
           ELSE FracEq(results.OUTER_NODES_POWER, Zero)

C16_Witness ==
    /\ pc = "done"
    /\ RelevantOuterNodes # {}
    /\ RejectedNoRejectedChild \ RelevantOuterNodes # {}
    /\ \E n \in NodeIds(hierarchy) :
          ~Rejected(n) /\ ~IsIrrelevant(hierarchy.description[n + 1])
    /\ FracEq(results.OUTER_NODES_POWER, <<1, 1>>)
    /\ ~FracEq(results.POWER, <<1, 1>>)

=============================================================================
